---- MODULE Spec2Model ----
(***************************************************************************)
(* ChatBook MVP (src/chatbook.py): a text file is read, split into parts,  *)
(* and questions are answered by keyword overlap with the parts.           *)
(*                                                                         *)
(* A Python str is modelled as a sequence of one-character strings.        *)
(* Cyrillic literals of the source are written transliterated, character   *)
(* for character, so that their lengths are the source's lengths.          *)
(***************************************************************************)
EXTENDS Integers, Sequences, FiniteSets, TLC

VARIABLES
    pc,                 \* position of main() / of the function under check
    fs,                 \* the file system: path -> file
    file_path,          \* main: file_path
    text,               \* main: text / split_text: text
    max_length,         \* split_text: max_length
    text_parts,         \* main: text_parts / result of split_text
    question,           \* main: question / find_answer: question
    answer,             \* main: answer / find_answer: returned text
    score,              \* main: score / find_answer: returned score
    scores,             \* find_answer: value of the local `score` after each part
    max_display_length, \* format_answer: max_display_length
    formatted_answer,   \* main: formatted_answer / result of format_answer
    formatted_again,    \* format_answer applied to its own result
    out,                \* what main() has printed: a tag per prompt and report
    calls               \* how often main() called each function

vars == <<pc, fs, file_path, text, max_length, text_parts, question, answer,
          score, scores, max_display_length, formatted_answer,
          formatted_again, out, calls>>

(***************************************************************************)
(* Bounds of the model.                                                    *)
(***************************************************************************)
MaxTextLen == 5
MaxSplitLength == 4
MaxParts == 2
MaxWords == 2
MaxAnswerLen == 4
MaxDisplay == 3
MaxQuestions == 2

(***************************************************************************)
(* Constants of the program.                                               *)
(***************************************************************************)
DefaultMaxLength == 5000
DefaultMaxDisplayLength == 1000
FallbackLength == 500
ShortWordLength == 2

None == <<"None">>

\* text_parts before split_text has returned (split_text returns no empty list).
NotSplit == <<>>

Min(a, b) == IF a <= b THEN a ELSE b

Range(s) == {s[i] : i \in 1..Len(s)}

\* All sequences over S of length 0..n.
SeqsUpTo(S, n) == UNION {[1..k -> S] : k \in 0..n}

(***************************************************************************)
(* str primitives.                                                         *)
(***************************************************************************)
\* The characters str.strip() and str.split() treat as whitespace.
Whitespace == {" ", "\n", "\t"}

RECURSIVE LStrip(_, _)
LStrip(s, chars) ==
    IF s # <<>> /\ Head(s) \in chars THEN LStrip(Tail(s), chars) ELSE s

RECURSIVE RStrip(_, _)
RStrip(s, chars) ==
    IF s # <<>> /\ s[Len(s)] \in chars
    THEN RStrip(SubSeq(s, 1, Len(s) - 1), chars) ELSE s

\* s.strip(chars); s.strip() is StripChars(s, Whitespace).
StripChars(s, chars) == RStrip(LStrip(s, chars), chars)

Strip(s) == StripChars(s, Whitespace)

\* s[:n]
Take(s, n) == SubSeq(s, 1, Min(n, Len(s)))

\* sub in s
Contains(s, sub) ==
    \E i \in 0..(Len(s) - Len(sub)) : SubSeq(s, i + 1, i + Len(sub)) = sub

UpperLetters ==
    <<"A", "B", "C", "D", "E", "F", "G", "H", "I", "J", "K", "L", "M",
      "N", "O", "P", "Q", "R", "S", "T", "U", "V", "W", "X", "Y", "Z">>

LowerLetters ==
    <<"a", "b", "c", "d", "e", "f", "g", "h", "i", "j", "k", "l", "m",
      "n", "o", "p", "q", "r", "s", "t", "u", "v", "w", "x", "y", "z">>

UpperToLower ==
    [c \in Range(UpperLetters) |->
        LowerLetters[CHOOSE i \in 1..26 : UpperLetters[i] = c]]

\* str.lower() on one character (the model's texts are Latin).
LowerChar(c) == IF c \in DOMAIN UpperToLower THEN UpperToLower[c] ELSE c

Lower(s) == [i \in 1..Len(s) |-> LowerChar(s[i])]

(***************************************************************************)
(* split_text                                                              *)
(***************************************************************************)
\* Index of the first "\n\n" in s, 0 when there is none.
FirstBlankLine(s) ==
    LET hits == {i \in 1..(Len(s) - 1) : s[i] = "\n" /\ s[i + 1] = "\n"}
    IN  IF hits = {} THEN 0 ELSE CHOOSE i \in hits : \A j \in hits : i <= j

\* text.split('\n\n')
RECURSIVE SplitBlankLines(_)
SplitBlankLines(s) ==
    LET i == FirstBlankLine(s)
    IN  IF i = 0 THEN <<s>>
        ELSE <<SubSeq(s, 1, i - 1)>> \o SplitBlankLines(SubSeq(s, i + 2, Len(s)))

RECURSIVE StripAll(_)
StripAll(ss) ==
    IF ss = <<>> THEN <<>>
    ELSE LET p == Strip(Head(ss))
         IN  (IF p # <<>> THEN <<p>> ELSE <<>>) \o StripAll(Tail(ss))

\* parts = [part.strip() for part in text.split('\n\n') if part.strip()]
Paragraphs(t) == StripAll(SplitBlankLines(t))

SentenceEnd == {".", "!", "?"}

\* The loop over the characters of a part, from character i on.
RECURSIVE SentenceScan(_, _, _, _)
SentenceScan(part, i, sentences, current_sentence) ==
    IF i > Len(part)
    THEN IF Strip(current_sentence) # <<>>
         THEN Append(sentences, Strip(current_sentence))
         ELSE sentences
    ELSE LET cur == Append(current_sentence, part[i])
         IN  IF part[i] \in SentenceEnd
             THEN SentenceScan(part, i + 1, Append(sentences, Strip(cur)), <<>>)
             ELSE SentenceScan(part, i + 1, sentences, cur)

\* A mutation of Sentences: the remainder after the last terminator is dropped.
RECURSIVE SentenceScanNoRest(_, _, _, _)
SentenceScanNoRest(part, i, sentences, current_sentence) ==
    IF i > Len(part)
    THEN sentences
    ELSE LET cur == Append(current_sentence, part[i])
         IN  IF part[i] \in SentenceEnd
             THEN SentenceScanNoRest(part, i + 1, Append(sentences, Strip(cur)), <<>>)
             ELSE SentenceScanNoRest(part, i + 1, sentences, cur)

SentencesNoRest(part) == SentenceScanNoRest(part, 1, <<>>, <<>>)

Sentences(part) == SentenceScan(part, 1, <<>>, <<>>)

\* A mutation of Fits: the separator is not counted.
FitsNoSeparator(current_part, sentence, L) ==
    Len(current_part) + Len(sentence) <= L

\* len(current_part) + len(sentence) + 1 <= max_length
Fits(current_part, sentence, L) ==
    Len(current_part) + Len(sentence) + 1 <= L

\* A mutation of JoinSentence: the sentences are joined with a newline.
JoinSentenceNewline(current_part, sentence) ==
    IF current_part # <<>> THEN current_part \o <<"\n">> \o sentence ELSE sentence

\* current_part += " " + sentence, or current_part = sentence
JoinSentence(current_part, sentence) ==
    IF current_part # <<>> THEN current_part \o <<" ">> \o sentence ELSE sentence

\* The loop that packs the sentences of one part, from sentence i on.
RECURSIVE PackScan(_, _, _, _, _)
PackScan(sentences, i, current_part, done, L) ==
    IF i > Len(sentences)
    THEN IF current_part # <<>> THEN Append(done, current_part) ELSE done
    ELSE IF Fits(current_part, sentences[i], L)
         THEN PackScan(sentences, i + 1, JoinSentence(current_part, sentences[i]),
                       done, L)
         ELSE PackScan(sentences, i + 1, sentences[i],
                       IF current_part # <<>> THEN Append(done, current_part)
                                               ELSE done,
                       L)

Pack(sentences, L) == PackScan(sentences, 1, <<>>, <<>>, L)

\* The loop over parts: what each part appends to final_parts.
RECURSIVE FinalParts(_, _)
FinalParts(parts, L) ==
    IF parts = <<>> THEN <<>>
    ELSE (IF Len(Head(parts)) <= L
          THEN <<Head(parts)>>
          ELSE Pack(Sentences(Head(parts)), L))
         \o FinalParts(Tail(parts), L)

\* A mutation of split_text: the `else [text]` of the return is missing.
split_text_no_fallback(t, L) == FinalParts(Paragraphs(t), L)

split_text(t, L) ==
    LET final_parts == FinalParts(Paragraphs(t), L)
    IN  IF final_parts # <<>> THEN final_parts ELSE <<t>>

(***************************************************************************)
(* find_answer                                                             *)
(***************************************************************************)
\* The characters of word.strip('.,!?;:()[]{}"\'')
Punctuation ==
    {".", ",", "!", "?", ";", ":", "(", ")", "[", "]", "{", "}", "\"", "'"}

NoKeywordsMessage ==
    <<"N", "e", " ", "u", "d", "a", "l", "o", "s", "_", " ", "o", "p", "r", "e",
      "d", "e", "l", "i", "t", "_", " ", "k", "l", "u", "c", "e", "v", "y", "e",
      " ", "s", "l", "o", "v", "a", " ", "v", " ", "v", "o", "p", "r", "o", "s",
      "e", ".">>

NoMatchMessage ==
    <<"N", "e", " ", "n", "a", "j", "d", "e", "n", "o", " ", "t", "o", "c", "n",
      "o", "g", "o", " ", "s", "o", "v", "p", "a", "d", "e", "n", "i", "a", ".",
      " ", "V", "o", "t", " ", "n", "a", "c", "a", "l", "o", " ", "t", "e", "k",
      "s", "t", "a", ":", "\n">>

\* s.split(): the maximal runs of non-whitespace, from character i on.
RECURSIVE SplitScan(_, _, _, _)
SplitScan(s, i, words, word) ==
    IF i > Len(s)
    THEN IF word # <<>> THEN Append(words, word) ELSE words
    ELSE IF s[i] \in Whitespace
         THEN SplitScan(s, i + 1,
                        IF word # <<>> THEN Append(words, word) ELSE words, <<>>)
         ELSE SplitScan(s, i + 1, words, Append(word, s[i]))

SplitWhitespace(s) == SplitScan(s, 1, <<>>, <<>>)

RECURSIVE KeepLongWords(_)
KeepLongWords(words) ==
    IF words = <<>> THEN <<>>
    ELSE LET w == StripChars(Head(words), Punctuation)
         IN  (IF Len(w) > ShortWordLength THEN <<w>> ELSE <<>>)
             \o KeepLongWords(Tail(words))

\* question_words: a list, in the order of the question, repetitions kept.
QuestionWords(q) == KeepLongWords(SplitWhitespace(Lower(q)))

\* The inner loop: score += 1 for each word of the list found in part_lower.
RECURSIVE PartScore(_, _)
PartScore(question_words, part_lower) ==
    IF question_words = <<>> THEN 0
    ELSE (IF Contains(part_lower, Head(question_words)) THEN 1 ELSE 0)
         + PartScore(Tail(question_words), part_lower)

\* A mutation of Better: a tie replaces the best match.
BetterOrEqual(s, best_score) == s >= best_score

\* if score > best_score
Better(s, best_score) == s > best_score

\* The outer loop over the parts, from part i on.
RECURSIVE ScanParts(_, _, _, _, _, _)
ScanParts(question_words, parts, i, best_match, best_score, seen) ==
    IF i > Len(parts)
    THEN [best_match |-> best_match, best_score |-> best_score, scores |-> seen]
    ELSE LET s == PartScore(question_words, Lower(parts[i]))
         IN  IF Better(s, best_score)
             THEN ScanParts(question_words, parts, i + 1, parts[i], s,
                            Append(seen, s))
             ELSE ScanParts(question_words, parts, i + 1, best_match, best_score,
                            Append(seen, s))

\* A mutation of NoMatchAnswer: the last part is shown instead of the first.
NoMatchAnswerLast(parts) ==
    NoMatchMessage \o Take(parts[Len(parts)], FallbackLength)

\* "...:\n" + text_parts[0][:500]
NoMatchAnswer(parts) == NoMatchMessage \o Take(parts[1], FallbackLength)

\* The result of find_answer and the scores its loop computed. text_parts[0]
\* of an empty list raises IndexError.
find_answer(q, parts) ==
    LET question_words == QuestionWords(q)
        r == ScanParts(question_words, parts, 1, <<>>, 0, <<>>)
    IN  IF question_words = <<>>
        THEN [raises |-> "", text |-> NoKeywordsMessage, score |-> 0,
              scores |-> <<>>]
        ELSE IF r.best_score = 0
        THEN IF parts = <<>>
             THEN [raises |-> "IndexError", text |-> None, score |-> 0,
                   scores |-> r.scores]
             ELSE [raises |-> "", text |-> NoMatchAnswer(parts), score |-> 0,
                   scores |-> r.scores]
        ELSE [raises |-> "", text |-> r.best_match, score |-> r.best_score,
              scores |-> r.scores]

(***************************************************************************)
(* format_answer                                                           *)
(***************************************************************************)
TruncationMarker ==
    <<"\n", "\n", "[", ".", ".", ".", " ", "t", "e", "k", "s", "t", " ", "o",
      "b", "r", "e", "z", "a", "n", " ", ".", ".", ".", "]">>

\* A mutation of format_answer: the test of the length is missing.
format_answer_always_cut(answer_text, m) ==
    Take(answer_text, m) \o TruncationMarker

format_answer(answer_text, m) ==
    IF Len(answer_text) <= m
    THEN answer_text
    ELSE Take(answer_text, m) \o TruncationMarker

(***************************************************************************)
(* read_text_file                                                          *)
(***************************************************************************)
\* A file: what os.path.exists and os.path.isfile answer, whether open()
\* succeeds, and what its bytes decode to in each encoding (None: the
\* decoding raises UnicodeDecodeError).
NoFile ==
    [exists |-> FALSE, isfile |-> FALSE, readable |-> FALSE,
     utf8 |-> None, cp1251 |-> None]

Directory ==
    [exists |-> TRUE, isfile |-> FALSE, readable |-> FALSE,
     utf8 |-> None, cp1251 |-> None]

Unreadable ==
    [exists |-> TRUE, isfile |-> TRUE, readable |-> FALSE,
     utf8 |-> None, cp1251 |-> None]

TextFile(u, c) ==
    [exists |-> TRUE, isfile |-> TRUE, readable |-> TRUE,
     utf8 |-> u, cp1251 |-> c]

\* The value or the exception of read_text_file(file_path).
read_text_file(files, path) ==
    LET f == files[path]
        Raise(e) == [raises |-> e, text |-> None]
    IN  IF ~f.exists THEN Raise("FileNotFoundError")
        ELSE IF ~f.isfile THEN Raise("ValueError")
        ELSE IF ~f.readable THEN Raise("PermissionError")
        ELSE IF f.utf8 = None /\ f.cp1251 = None THEN Raise("UnicodeDecodeError")
        ELSE LET t == IF f.utf8 # None THEN f.utf8 ELSE f.cp1251
             IN  IF Strip(t) = <<>> THEN Raise("ValueError")
                 ELSE [raises |-> "", text |-> t]

\* The except clause of main() that catches an exception of read_text_file:
\* the first of FileNotFoundError, ValueError, Exception the exception is an
\* instance of (UnicodeDecodeError is a ValueError, PermissionError is not).
LoadHandler(e) ==
    CASE e = "FileNotFoundError" -> "error_not_found"
      [] e \in {"ValueError", "UnicodeDecodeError"} -> "error_value"
      [] OTHER -> "error_unexpected"

(***************************************************************************)
(* main                                                                    *)
(***************************************************************************)
default_file == <<"n", "a", "r", "n", "i", "a", ".", "t", "x", "t">>

OtherFile == <<"b">>

Paths == {default_file, OtherFile}

\* What the user types at the prompt for the path.
PathInputs == {<<>>, <<" ", "b">>}

Doc1 == <<"C", "a", "t", "s", " ", "n", "a", "p", ".", "\n", "\n",
          "D", "o", "g", "s", " ", "r", "u", "n", ".">>

Doc2 == <<"F", "o", "g", ".">>

Blank == <<" ", "\n">>

Files ==
    {NoFile, Directory, Unreadable, TextFile(None, None), TextFile(Blank, Blank),
     TextFile(Doc1, Doc1), TextFile(None, Doc2)}

\* ['vyhod', 'exit', 'quit', 'q']
ExitWords ==
    {<<"v", "y", "h", "o", "d">>, <<"e", "x", "i", "t">>,
     <<"q", "u", "i", "t">>, <<"q">>}

\* What the user types at the prompt for a question.
QuestionInputs ==
    {<<" ">>, <<"E", "x", "i", "t", " ">>, <<"d", "o", "g", "s", "?">>,
     <<"c", "a", "t", "s", " ", "r", "u", "n">>, <<"e", "l", "k">>}

NoCalls ==
    [read_text_file |-> 0, split_text |-> 0, input |-> 0, find_answer |-> 0]

Called(f) == [calls EXCEPT ![f] = @ + 1]

Init ==
    /\ pc = "ask_path"
    /\ fs \in [Paths -> Files]
    /\ file_path = <<>>
    /\ text = None
    /\ max_length = DefaultMaxLength
    /\ text_parts = NotSplit
    /\ question = None
    /\ answer = None
    /\ score = 0
    /\ scores = <<>>
    /\ max_display_length = DefaultMaxDisplayLength
    /\ formatted_answer = None
    /\ formatted_again = None
    /\ out = <<>>
    /\ calls = NoCalls

\* file_path = input(...).strip(); if not file_path: file_path = default_file
AskPath ==
    /\ pc = "ask_path"
    /\ \E typed \in PathInputs :
         file_path' = IF Strip(typed) = <<>> THEN default_file ELSE Strip(typed)
    /\ out' = Append(out, "ask_path")
    /\ pc' = "read"
    /\ UNCHANGED <<fs, text, max_length, text_parts, question, answer, score,
                   scores, max_display_length, formatted_answer,
                   formatted_again, calls>>

\* A mutation of LoadFailed: the handler reports and does not return.
LoadFailedGoesOn(e) ==
    /\ out' = Append(out, LoadHandler(e))
    /\ text' = <<>>
    /\ pc' = "split"

\* An except clause of the load: the report, then return.
LoadFailed(e) ==
    /\ out' = Append(out, LoadHandler(e))
    /\ text' = text
    /\ pc' = "returned"

\* try: text = read_text_file(file_path) ... except ...: return
ReadFile ==
    /\ pc = "read"
    /\ calls' = Called("read_text_file")
    /\ LET r == read_text_file(fs, file_path)
       IN  IF r.raises = ""
           THEN /\ text' = r.text
                /\ out' = Append(out, "read_ok")
                /\ pc' = "split"
           ELSE LoadFailed(r.raises)
    /\ UNCHANGED <<fs, file_path, max_length, text_parts, question, answer,
                   score, scores, max_display_length, formatted_answer,
                   formatted_again>>

\* text_parts = split_text(text)
SplitText ==
    /\ pc = "split"
    /\ calls' = Called("split_text")
    /\ text_parts' = split_text(text, max_length)
    /\ out' = Append(out, "split_ok")
    /\ pc' = "prompt"
    /\ UNCHANGED <<fs, file_path, text, max_length, question, answer, score,
                   scores, max_display_length, formatted_answer,
                   formatted_again>>

\* question = input(...).strip(), the exit words and the empty question.
AskQuestion ==
    /\ pc = "prompt"
    /\ calls.input < MaxQuestions
    /\ calls' = Called("input")
    /\ \E typed \in QuestionInputs :
         /\ question' = Strip(typed)
         /\ IF Lower(Strip(typed)) \in ExitWords
            THEN out' = out \o <<"ask", "goodbye">> /\ pc' = "exited"
            ELSE IF Strip(typed) = <<>>
            THEN out' = out \o <<"ask", "please_enter">> /\ pc' = "prompt"
            ELSE out' = Append(out, "ask") /\ pc' = "find"
    /\ UNCHANGED <<fs, file_path, text, max_length, text_parts, answer, score,
                   scores, max_display_length, formatted_answer,
                   formatted_again>>

\* The try block of the loop when nothing raises.
AnswerQuestion ==
    /\ pc = "find"
    /\ calls' = Called("find_answer")
    /\ LET r == find_answer(question, text_parts)
       IN  /\ r.raises = ""
           /\ answer' = r.text
           /\ score' = r.score
           /\ scores' = r.scores
           /\ formatted_answer' = format_answer(r.text, max_display_length)
           /\ out' = Append(out, IF r.score > 0 THEN "answer_matches" ELSE "answer")
    /\ pc' = "prompt"
    /\ UNCHANGED <<fs, file_path, text, max_length, text_parts, question,
                   max_display_length, formatted_again>>

\* A mutation of QueryFailed: after the report the loop is left.
QueryFailedLeaves ==
    /\ pc = "find"
    /\ calls' = Called("find_answer")
    /\ out' = Append(out, "error_query")
    /\ pc' = "exited"
    /\ UNCHANGED <<fs, file_path, text, max_length, text_parts, question, answer,
                   score, scores, max_display_length, formatted_answer,
                   formatted_again>>

\* The try block of the loop when find_answer or format_answer raises an
\* Exception (of any cause): except Exception reports it, the loop goes on.
QueryFailed ==
    /\ pc = "find"
    /\ calls' = Called("find_answer")
    /\ out' = Append(out, "error_query")
    /\ pc' = "prompt"
    /\ UNCHANGED <<fs, file_path, text, max_length, text_parts, question, answer,
                   score, scores, max_display_length, formatted_answer,
                   formatted_again>>

Next == AskPath \/ ReadFile \/ SplitText \/ AskQuestion \/ AnswerQuestion
        \/ QueryFailed

Spec == Init /\ [][Next]_vars

(***************************************************************************)
(* split_text on its own: every text over TextAlphabet up to MaxTextLen    *)
(* characters, every max_length in 1..MaxSplitLength.                      *)
(***************************************************************************)
TextAlphabet == {"a", ".", " ", "\n"}

InitSplit ==
    /\ pc = "input"
    /\ text \in SeqsUpTo(TextAlphabet, MaxTextLen)
    /\ max_length \in 1..MaxSplitLength
    /\ fs = <<>>
    /\ file_path = <<>>
    /\ text_parts = NotSplit
    /\ question = None
    /\ answer = None
    /\ score = 0
    /\ scores = <<>>
    /\ max_display_length = DefaultMaxDisplayLength
    /\ formatted_answer = None
    /\ formatted_again = None
    /\ out = <<>>
    /\ calls = NoCalls

ApplySplitText ==
    /\ pc = "input"
    /\ text_parts' = split_text(text, max_length)
    /\ pc' = "done"
    /\ UNCHANGED <<fs, file_path, text, max_length, question, answer, score,
                   scores, max_display_length, formatted_answer,
                   formatted_again, out, calls>>

NextSplit == ApplySplitText

SpecSplit == InitSplit /\ [][NextSplit]_vars

(***************************************************************************)
(* find_answer on its own: questions of up to MaxWords words, lists of 1   *)
(* to MaxParts parts.                                                      *)
(***************************************************************************)
QuestionTokens ==
    {<<"c", "a", "t">>, <<"\"", "C", "a", "t", "\"">>, <<"D", "o", "g", "?">>,
     <<"d", "o">>, <<"e", "l", "k">>}

\* A part longer than the 500 characters the no-match answer shows.
LongPart == [i \in 1..(FallbackLength + 2) |-> IF i = 2 THEN " " ELSE "z"]

PartChoices ==
    {<<"A", " ", "c", "a", "t", ".">>,
     <<"D", "o", "g", "s", ",", " ", "c", "a", "t", "s">>,
     LongPart}

RECURSIVE JoinWords(_)
JoinWords(ws) ==
    IF ws = <<>> THEN <<>>
    ELSE IF Len(ws) = 1 THEN ws[1]
    ELSE ws[1] \o <<" ">> \o JoinWords(Tail(ws))

InitFind ==
    /\ pc = "input"
    /\ question \in {JoinWords(ws) : ws \in SeqsUpTo(QuestionTokens, MaxWords)}
    /\ text_parts \in SeqsUpTo(PartChoices, MaxParts) \ {<<>>}
    /\ fs = <<>>
    /\ file_path = <<>>
    /\ text = None
    /\ max_length = DefaultMaxLength
    /\ answer = None
    /\ score = 0
    /\ scores = <<>>
    /\ max_display_length = DefaultMaxDisplayLength
    /\ formatted_answer = None
    /\ formatted_again = None
    /\ out = <<>>
    /\ calls = NoCalls

ApplyFindAnswer ==
    /\ pc = "input"
    /\ LET r == find_answer(question, text_parts)
       IN  /\ answer' = r.text
           /\ score' = r.score
           /\ scores' = r.scores
    /\ pc' = "done"
    /\ UNCHANGED <<fs, file_path, text, max_length, text_parts, question,
                   max_display_length, formatted_answer, formatted_again, out,
                   calls>>

NextFind == ApplyFindAnswer

SpecFind == InitFind /\ [][NextFind]_vars

(***************************************************************************)
(* format_answer on its own, applied once and then to its own result.      *)
(***************************************************************************)
InitFormat ==
    /\ pc = "input"
    /\ answer \in SeqsUpTo({"a", "b"}, MaxAnswerLen)
    /\ max_display_length \in 0..MaxDisplay
    /\ fs = <<>>
    /\ file_path = <<>>
    /\ text = None
    /\ max_length = DefaultMaxLength
    /\ text_parts = NotSplit
    /\ question = None
    /\ score = 0
    /\ scores = <<>>
    /\ formatted_answer = None
    /\ formatted_again = None
    /\ out = <<>>
    /\ calls = NoCalls

FormatOnce ==
    /\ pc = "input"
    /\ formatted_answer' = format_answer(answer, max_display_length)
    /\ pc' = "once"
    /\ UNCHANGED <<fs, file_path, text, max_length, text_parts, question, answer,
                   score, scores, max_display_length, formatted_again, out, calls>>

FormatAgain ==
    /\ pc = "once"
    /\ formatted_again' = format_answer(formatted_answer, max_display_length)
    /\ pc' = "twice"
    /\ UNCHANGED <<fs, file_path, text, max_length, text_parts, question, answer,
                   score, scores, max_display_length, formatted_answer, out,
                   calls>>

NextFormat == FormatOnce \/ FormatAgain

SpecFormat == InitFormat /\ [][NextFormat]_vars

(***************************************************************************)
(* Properties.                                                             *)
(***************************************************************************)
IsInk(c) == c \notin Whitespace

\* s with all whitespace deleted.
Squeeze(s) == SelectSeq(s, IsInk)

RECURSIVE Flatten(_)
Flatten(ss) == IF ss = <<>> THEN <<>> ELSE Head(ss) \o Flatten(Tail(ss))

RECURSIVE JoinSpace(_)
JoinSpace(ss) ==
    IF Len(ss) = 1 THEN ss[1] ELSE ss[1] \o <<" ">> \o JoinSpace(Tail(ss))

AllWhitespace(s) == \A i \in 1..Len(s) : s[i] \in Whitespace

\* c is one sentence unit of paragraph p: the trimmed run from the start of
\* p or from behind a terminator, up to the next terminator or to the end.
IsUnitOf(c, p) ==
    \E i \in 1..Len(p) : \E j \in i..Len(p) :
        /\ i = 1 \/ p[i - 1] \in SentenceEnd
        /\ p[j] \in SentenceEnd \/ j = Len(p)
        /\ \A k \in i..(j - 1) : p[k] \notin SentenceEnd
        /\ c = Strip(SubSeq(p, i, j))
        /\ c # <<>>

IsSentenceUnit(c, t) ==
    \E k \in 1..Len(Paragraphs(t)) : IsUnitOf(c, Paragraphs(t)[k])

\* c is two or more consecutive sentence units of an oversized paragraph of
\* t, joined with single spaces.
IsPackedUnits(c, t, L) ==
    \E k \in 1..Len(Paragraphs(t)) :
        LET p == Paragraphs(t)[k]
            u == Sentences(p)
        IN  /\ Len(p) > L
            /\ \E a \in 1..Len(u) : \E b \in (a + 1)..Len(u) :
                   c = JoinSpace(SubSeq(u, a, b))

SplitDone == pc = "done"

\* C1 as stated: every chunk of split_text(T, L), T non-empty, is at most L
\* long unless it is exactly one sentence unit longer than L.
Orig_C1 ==
    (SplitDone /\ text # <<>>) =>
        \A k \in 1..Len(text_parts) :
            \/ Len(text_parts[k]) <= max_length
            \/ IsSentenceUnit(text_parts[k], text)

\* C1 amended: every chunk of split_text(T, L), T non-empty, is at most L
\* long unless it is exactly one sentence unit longer than L, or it is T
\* itself, returned as the only chunk because T is all whitespace.
Thm_C1 ==
    (SplitDone /\ text # <<>>) =>
        \A k \in 1..Len(text_parts) :
            \/ Len(text_parts[k]) <= max_length
            \/ IsSentenceUnit(text_parts[k], text)
            \/ AllWhitespace(text) /\ text_parts = <<text>>

\* An oversized sentence unit was emitted whole next to other chunks.
Witness_C1 ==
    /\ SplitDone
    /\ ~AllWhitespace(text)
    /\ Len(text_parts) >= 2
    /\ \E k \in 1..Len(text_parts) : Len(text_parts[k]) > max_length

\* C5: the chunks of split_text(T, L), concatenated in order, with all
\* whitespace deleted, are T with all whitespace deleted.
Thm_C5 == SplitDone => Squeeze(Flatten(text_parts)) = Squeeze(text)

\* A text with a blank line and an oversized paragraph ending in a remainder.
Witness_C5 ==
    /\ SplitDone
    /\ Len(Paragraphs(text)) >= 2
    /\ \E k \in 1..Len(Paragraphs(text)) :
           /\ Len(Paragraphs(text)[k]) > max_length
           /\ Paragraphs(text)[k][Len(Paragraphs(text)[k])] \notin SentenceEnd
           /\ Len(Sentences(Paragraphs(text)[k])) >= 2

\* C6: split_text(T, L) of a non-empty T has at least one chunk, and is the
\* single chunk T when T is all whitespace (no paragraph survives trimming).
Thm_C6 ==
    (SplitDone /\ text # <<>>) =>
        /\ Len(text_parts) >= 1
        /\ AllWhitespace(text) => text_parts = <<text>>

Witness_C6 == SplitDone /\ text # <<>> /\ AllWhitespace(text) /\ Len(text) >= 2

\* C9 as stated: every chunk of split_text(T, L) is a contiguous substring
\* of T.
Orig_C9 ==
    SplitDone => \A k \in 1..Len(text_parts) : Contains(text, text_parts[k])

\* C9 amended: every chunk of split_text(T, L) is a contiguous substring of
\* T, or is two or more consecutive sentence units of an oversized paragraph
\* joined with single spaces; in both cases the chunk with its whitespace
\* deleted is a contiguous substring of T with its whitespace deleted.
Thm_C9 ==
    SplitDone =>
        \A k \in 1..Len(text_parts) :
            /\ Contains(Squeeze(text), Squeeze(text_parts[k]))
            /\ \/ Contains(text, text_parts[k])
               \/ IsPackedUnits(text_parts[k], text, max_length)

\* A packed chunk that is not a substring of the text.
Witness_C9 ==
    /\ SplitDone
    /\ \E k \in 1..Len(text_parts) :
           /\ ~Contains(text, text_parts[k])
           /\ IsPackedUnits(text_parts[k], text, max_length)

FindDone == pc = "done" /\ answer # None

\* The keywords of the question, as a set.
Keywords == Range(QuestionWords(question))

\* The keywords found in part k.
Found(k) == {w \in Keywords : Contains(Lower(text_parts[k]), w)}

\* C2: the score find_answer computes for a chunk is the number of distinct
\* keywords of the question that are substrings of the lowercased chunk.
Orig_C2 ==
    FindDone => \A k \in 1..Len(scores) : scores[k] = Cardinality(Found(k))

\* C3: when some chunk scores above 0, find_answer returns the chunk of
\* lowest index among those of maximum score, and that score.
Thm_C3 ==
    (FindDone /\ \E k \in 1..Len(scores) : scores[k] > 0) =>
        \E k \in 1..Len(text_parts) :
            /\ \A j \in 1..Len(text_parts) : scores[j] <= scores[k]
            /\ \A j \in 1..(k - 1) : scores[j] < scores[k]
            /\ answer = text_parts[k]
            /\ score = scores[k]

\* Two different chunks tie at the maximum score.
Witness_C3 ==
    /\ FindDone
    /\ Len(scores) >= 2
    /\ scores[1] > 0
    /\ \A j \in 1..Len(scores) : scores[j] = scores[1]
    /\ text_parts[2] # text_parts[1]
    /\ answer = text_parts[1]

\* C4: when the question has a keyword and no chunk contains any keyword,
\* find_answer returns score 0 and the no-match message followed by the
\* first 500 characters of chunk 0.
Thm_C4 ==
    (/\ FindDone
     /\ Keywords # {}
     /\ \A k \in 1..Len(text_parts) : Found(k) = {}) =>
        /\ score = 0
        /\ answer = NoMatchMessage
                    \o [i \in 1..Min(500, Len(text_parts[1])) |-> text_parts[1][i]]

\* No keyword is found, chunk 0 is longer than 500 characters and is not
\* the only chunk.
Witness_C4 ==
    /\ FindDone
    /\ Keywords # {}
    /\ \A k \in 1..Len(text_parts) : Found(k) = {}
    /\ Len(text_parts) >= 2
    /\ Len(text_parts[1]) > 500
    /\ text_parts[2] # text_parts[1]
    /\ Len(answer) = Len(NoMatchMessage) + 500

\* C10: format_answer applied to its own result returns that result, for
\* every text and every max_display_length >= 0.
Thm_C10 == pc = "twice" => formatted_again = formatted_answer

\* The first application has cut the text and appended the marker.
Witness_C10 ==
    /\ pc = "twice"
    /\ Len(answer) > max_display_length
    /\ Len(formatted_answer) > max_display_length
    /\ formatted_answer # answer

\* The load of the file the session chose must fail: the path is missing,
\* is no regular file, cannot be opened, decodes in neither encoding, or
\* holds no character other than whitespace.
LoadFails ==
    /\ file_path \in Paths
    /\ LET f == fs[file_path]
       IN  \/ ~f.exists
           \/ ~f.isfile
           \/ ~f.readable
           \/ f.utf8 = None /\ f.cp1251 = None
           \/ f.utf8 # None /\ AllWhitespace(f.utf8)
           \/ f.utf8 = None /\ f.cp1251 # None /\ AllWhitespace(f.cp1251)

\* C7: when read_text_file fails, main reports the error and ends: it never
\* splits the text, never asks for a question, never calls find_answer and
\* reads the file once only.
Thm_C7 ==
    (LoadFails /\ pc # "read") =>
        /\ pc = "returned"
        /\ text_parts = NotSplit
        /\ calls = [NoCalls EXCEPT !["read_text_file"] = 1]
        /\ Len(out) = 2
        /\ out[2] \in {"error_not_found", "error_value", "error_unexpected"}

\* The session has ended on a file that decodes in neither encoding.
Witness_C7 ==
    /\ pc = "returned"
    /\ LoadFails
    /\ fs[file_path].readable
    /\ fs[file_path].utf8 = None

InLoop == pc \in {"prompt", "find"}

\* C8: a failure while answering one question is reported, the session goes
\* on to the next prompt, the chunk sequence is the one computed at startup,
\* and a later answer is what find_answer and format_answer give for that
\* question alone.
Thm_C8 ==
    /\ InLoop => /\ text_parts = split_text(text, DefaultMaxLength)
                 /\ calls.split_text = 1
    /\ (out # <<>> /\ out[Len(out)] = "error_query") => pc = "prompt"
    /\ (pc = "prompt" /\ out[Len(out)] \in {"answer", "answer_matches"}) =>
           LET r == find_answer(question, split_text(text, DefaultMaxLength))
           IN  /\ answer = r.text
               /\ score = r.score
               /\ formatted_answer = format_answer(r.text, DefaultMaxDisplayLength)

\* A question was answered after an earlier question had failed.
Witness_C8 ==
    /\ pc = "prompt"
    /\ out[Len(out)] = "answer_matches"
    /\ \E i \in 1..Len(out) : out[i] = "error_query"

====
